---- MODULE Spec2Model ----
(***************************************************************************)
(* Model of the lazy GeoTIFF export of gee_utils.py: export_if_needed and  *)
(* _download_url_to_tif, driven by callers such as app.run.                *)
(*                                                                         *)
(* A file name is a sequence of tokens: letters (upper or lower case) and  *)
(* one token per extension.  A path is a directory below out_dir together  *)
(* with a file name.  The filesystem under out_dir maps every path to its  *)
(* state: absent, partial (opened for writing, content not yet complete)   *)
(* or complete, with the threads writing it and the name of the export     *)
(* that wrote it last.                                                     *)
(***************************************************************************)
EXTENDS Integers, Sequences, FiniteSets, TLC

VARIABLES callers, dirMade, fs, pc, params, arch, idx, ret, hit, hitOn,
          failedAt, made, overlapped, scan, fs0, callNo,
          urlRequests, httpFetches, served

vars == <<callers, dirMade, fs, pc, params, arch, idx, ret, hit, hitOn,
          failedAt, made, overlapped, scan, fs0, callNo,
          urlRequests, httpFetches, served>>

(* ---------------------------- bounds ----------------------------------- *)

\* Total number of export_if_needed calls made in one behaviour.
MaxCalls == 3

\* Total number of calls when two threads call at the same time.
MaxConcCalls == 2

\* Threads that may call export_if_needed (concurrent UI handlers).
Procs == {1, 2}

(* ------------------------- names and paths ----------------------------- *)

\* Logical export names handed to export_if_needed (app.run builds
\* NDVI_{start}_{end} and LST_{start}_{end} from free text); the second
\* contains the first, as NDVI_2023_20 contains NDVI_2023_2.
Names == { <<"N">>, <<"N", "D">> }

NoName == << >>

\* scale argument: the default of export_if_needed and another resolution.
DefaultScale == 250

Scales == {DefaultScale, 30}

\* str.lower on one token.
LowerTok(t) ==
    CASE t = "N"    -> "n"
      [] t = "D"    -> "d"
      [] t = "X"    -> "x"
      [] t = ".TIF" -> ".tif"
      [] t = ".TXT" -> ".txt"
      [] OTHER      -> t

\* str.lower on a file name.
Lower(s) == [i \in DOMAIN s |-> LowerTok(s[i])]

\* f.lower().endswith('.tif')
EndsWithTif(f) == Len(f) > 0 /\ Lower(f)[Len(f)] = ".tif"

\* sub in s  (substring test)
Contains(sub, s) ==
    \E i \in 1..(Len(s) - Len(sub) + 1) : SubSeq(s, i, i + Len(sub) - 1) = sub

\* The test of the fallback scan on one directory entry.
Matches(f, nm) == EndsWithTif(f) /\ Contains(Lower(nm), Lower(f))

\* os.path.join(root, f)
Join(root, f) == [dir |-> root, file |-> f]

\* out_tif = os.path.join(out_dir, f"{name}.tif")
OutTif(nm) == Join(".", nm \o <<".tif">>)

NoPath == [dir |-> "none", file |-> << >>]

(* --------------------- the remote provider's answers ------------------- *)

\* What the ZIP behind the download URL may hold for an export called nm,
\* in archive order: the expected {name}.tif alone or with a side file, a
\* differently named raster, rasters in a sub-folder and in the root, a
\* non-raster only, or nothing.
Archives(nm) ==
    { << OutTif(nm) >>,
      << OutTif(nm), Join(".", <<"x", ".txt">>) >>,
      << Join(".", <<"x">> \o nm \o <<".tif">>) >>,
      << Join("sub", Lower(nm) \o <<".TIF">>),
         Join(".", <<"x">> \o nm \o <<".tif">>) >>,
      << Join(".", <<"x", ".txt">>) >>,
      << >> }

\* Every path the model's filesystem can hold.
Paths ==
    UNION { { a[i] : i \in DOMAIN a } : a \in UNION { Archives(nm) : nm \in Names } }
      \cup { OutTif(nm) : nm \in Names }

Absent == [st |-> "absent", writers |-> {}, by |-> NoName]

\* An existence test that takes a file still being written for missing.
ExistsWhenComplete(f, path) == f[path].st = "complete"

\* os.path.exists(path)
Exists(f, path) == f[path].st # "absent"

\* The entries of directory d, in one of the orders the directory may be
\* listed in: os.walk takes the order of os.scandir, which is arbitrary.
Listings(f, d) ==
    LET here == { p.file : p \in { q \in Paths : q.dir = d /\ Exists(f, q) } }
        n    == Cardinality(here)
    IN  { s \in [1..n -> here] : \A i, j \in 1..n : i # j => s[i] # s[j] }

\* os.walk(out_dir), top-down: out_dir itself, then each sub-directory that
\* exists, each with its files.
Walks(f) ==
    LET subThere == \E q \in Paths : q.dir = "sub" /\ Exists(f, q)
    IN  IF subThere
          THEN { << [root |-> ".", files |-> a], [root |-> "sub", files |-> b] >> :
                   a \in Listings(f, "."), b \in Listings(f, "sub") }
          ELSE { << [root |-> ".", files |-> a] >> : a \in Listings(f, ".") }

\* The inner loop of the scan over one directory's files: the index of the
\* first matching file, 0 when none matches (the break ends this loop only).
FirstMatch(files, nm) ==
    LET hits == { i \in DOMAIN files : Matches(files[i], nm) }
    IN  IF hits = {} THEN 0 ELSE CHOOSE i \in hits : \A j \in hits : i <= j

\* The two loops of the scan, over the first k directories of the walk: every
\* directory holding a match assigns out_tif again.
RECURSIVE ScanFrom(_, _, _, _)
ScanFrom(walk, nm, k, out) ==
    IF k > Len(walk) THEN out
    ELSE LET m == FirstMatch(walk[k].files, nm)
         IN  ScanFrom(walk, nm, k + 1,
                      IF m = 0 THEN out ELSE Join(walk[k].root, walk[k].files[m]))

\* A scan that stops at the first match of the whole walk.
ScanStopAtFirst(walk, nm, out) ==
    LET ds == { k \in DOMAIN walk : FirstMatch(walk[k].files, nm) # 0 }
    IN  IF ds = {} THEN out
        ELSE LET k == CHOOSE a \in ds : \A b \in ds : a <= b
             IN  Join(walk[k].root, walk[k].files[FirstMatch(walk[k].files, nm)])

\* for root, _, files in os.walk(out_dir): for f in files: if ...: break
Scan(walk, nm, out) == ScanFrom(walk, nm, 1, out)

\* A check that always scans, whether or not out_tif exists.
ReturnPathAlwaysScan(f, walk, nm) == Scan(walk, nm, OutTif(nm))

\* The path export_if_needed returns after the download: out_tif when it
\* exists, else what the scan leaves in out_tif.
ReturnPath(f, walk, nm) ==
    IF Exists(f, OutTif(nm)) THEN OutTif(nm) ELSE Scan(walk, nm, OutTif(nm))

(* ------------------------------ state ---------------------------------- *)

Idle == {"idle", "returned", "raised"}

InCall == {"region", "geturl", "http", "extract", "writing", "verify"}

NoParams == [name |-> NoName, scale |-> DefaultScale, geom |-> FALSE]

InitWith(cs) ==
    /\ callers = cs
    /\ dirMade = FALSE
    /\ fs = [q \in Paths |-> Absent]
    /\ pc = [p \in Procs |-> "idle"]
    /\ params = [p \in Procs |-> NoParams]
    /\ arch = [p \in Procs |-> << >>]
    /\ idx = [p \in Procs |-> 1]
    /\ ret = [p \in Procs |-> NoPath]
    /\ hit = [p \in Procs |-> FALSE]
    /\ hitOn = [p \in Procs |-> Absent]
    /\ failedAt = [p \in Procs |-> "none"]
    /\ made = [p \in Procs |-> 0]
    /\ overlapped = [p \in Procs |-> FALSE]
    /\ scan = [p \in Procs |-> << >>]
    /\ fs0 = [p \in Procs |-> [q \in Paths |-> Absent]]
    /\ callNo = [p \in Procs |-> 0]
    /\ urlRequests = [nm \in Names |-> 0]
    /\ httpFetches = [nm \in Names |-> 0]
    /\ served = [nm \in Names |-> FALSE]

\* Two UI handlers may call export_if_needed at the same time.
Init == InitWith(Procs)

\* One caller: every call ends before the next begins.
InitSeq == InitWith({1})

TotalCalls == callNo[1] + callNo[2]

CallBudget == IF Cardinality(callers) > 1 THEN MaxConcCalls ELSE MaxCalls

(* ----------------------------- actions --------------------------------- *)

\* An exception leaves export_if_needed: nothing catches it, the caller gets
\* the error and no path.
PropagateSwallowed(p, at) ==
    /\ pc' = [pc EXCEPT ![p] = "returned"]
    /\ ret' = [ret EXCEPT ![p] = OutTif(params[p].name)]
    /\ failedAt' = [failedAt EXCEPT ![p] = at]

Propagate(p, at) ==
    /\ pc' = [pc EXCEPT ![p] = "raised"]
    /\ ret' = [ret EXCEPT ![p] = NoPath]
    /\ failedAt' = [failedAt EXCEPT ![p] = at]

\* export_if_needed is called: makedirs, build out_tif, test its existence;
\* return it at once when it exists, go on to the export when not.
Call(p) ==
    /\ p \in callers
    /\ pc[p] \in Idle
    /\ TotalCalls < CallBudget
    /\ \E nm \in Names, sc \in Scales, g \in BOOLEAN :
         LET out   == OutTif(nm)
             found == Exists(fs, out)
             peers == { q \in callers \ {p} :
                          pc[q] \in InCall /\ params[q].name = nm }
         IN  /\ params' = [params EXCEPT ![p] = [name |-> nm, scale |-> sc, geom |-> g]]
             /\ hit' = [hit EXCEPT ![p] = found]
             /\ hitOn' = [hitOn EXCEPT ![p] = fs[out]]
             /\ ret' = [ret EXCEPT ![p] = IF found THEN out ELSE NoPath]
             /\ pc' = [pc EXCEPT ![p] = IF found THEN "returned"
                                        ELSE IF g THEN "region" ELSE "geturl"]
             /\ served' = IF found THEN [served EXCEPT ![nm] = TRUE] ELSE served
             /\ overlapped' = [q \in Procs |->
                                 IF q = p THEN peers # {}
                                 ELSE IF q \in peers THEN TRUE ELSE overlapped[q]]
    /\ dirMade' = TRUE
    /\ callNo' = [callNo EXCEPT ![p] = @ + 1]
    /\ arch' = [arch EXCEPT ![p] = << >>]
    /\ idx' = [idx EXCEPT ![p] = 1]
    /\ failedAt' = [failedAt EXCEPT ![p] = "none"]
    /\ made' = [made EXCEPT ![p] = 0]
    /\ scan' = [scan EXCEPT ![p] = << >>]
    /\ fs0' = [fs0 EXCEPT ![p] = fs]
    /\ UNCHANGED <<callers, fs, urlRequests, httpFetches>>

\* region.coordinates().getInfo() for an ee.Geometry region answers.
RegionInfo(p) ==
    /\ pc[p] = "region"
    /\ pc' = [pc EXCEPT ![p] = "geturl"]
    /\ UNCHANGED <<callers, dirMade, fs, params, arch, idx, ret, hit, hitOn,
                   failedAt, made, overlapped, scan, fs0, callNo,
                   urlRequests, httpFetches, served>>

\* region.coordinates().getInfo() raises.
RegionInfoFails(p) ==
    /\ pc[p] = "region"
    /\ Propagate(p, "region")
    /\ UNCHANGED <<callers, dirMade, fs, params, arch, idx, hit, hitOn,
                   made, overlapped, scan, fs0, callNo,
                   urlRequests, httpFetches, served>>

\* img.getDownloadURL(...) answers with a URL.
GetDownloadURL(p) ==
    /\ pc[p] = "geturl"
    /\ urlRequests' = [urlRequests EXCEPT ![params[p].name] = @ + 1]
    /\ made' = [made EXCEPT ![p] = @ + 1]
    /\ pc' = [pc EXCEPT ![p] = "http"]
    /\ UNCHANGED <<callers, dirMade, fs, params, arch, idx, ret, hit, hitOn,
                   failedAt, overlapped, scan, fs0, callNo, httpFetches, served>>

\* img.getDownloadURL(...) raises.
GetDownloadURLFails(p) ==
    /\ pc[p] = "geturl"
    /\ urlRequests' = [urlRequests EXCEPT ![params[p].name] = @ + 1]
    /\ made' = [made EXCEPT ![p] = @ + 1]
    /\ Propagate(p, "url")
    /\ UNCHANGED <<callers, dirMade, fs, params, arch, idx, hit, hitOn,
                   overlapped, scan, fs0, callNo, httpFetches, served>>

\* requests.get answers 2xx with a ZIP that zipfile.ZipFile can open.
HttpGet(p) ==
    /\ pc[p] = "http"
    /\ httpFetches' = [httpFetches EXCEPT ![params[p].name] = @ + 1]
    /\ \E a \in Archives(params[p].name) :
         /\ arch' = [arch EXCEPT ![p] = a]
         /\ pc' = [pc EXCEPT ![p] = IF Len(a) = 0 THEN "verify" ELSE "extract"]
    /\ idx' = [idx EXCEPT ![p] = 1]
    /\ UNCHANGED <<callers, dirMade, fs, params, ret, hit, hitOn, failedAt,
                   made, overlapped, scan, fs0, callNo, urlRequests, served>>

\* requests.get raises, raise_for_status raises on an error status, or the
\* body is no ZIP archive.
HttpGetFails(p) ==
    /\ pc[p] = "http"
    /\ httpFetches' = [httpFetches EXCEPT ![params[p].name] = @ + 1]
    /\ \E at \in {"get", "status", "zip"} : Propagate(p, at)
    /\ UNCHANGED <<callers, dirMade, fs, params, arch, idx, hit, hitOn,
                   made, overlapped, scan, fs0, callNo, urlRequests, served>>

\* extractall opens the next member's target under out_dir for writing,
\* truncating what was there.
ExtractOpen(p) ==
    /\ pc[p] = "extract"
    /\ LET m == arch[p][idx[p]]
       IN  fs' = [fs EXCEPT ![m] = [st |-> "partial",
                                    writers |-> fs[m].writers \cup {p},
                                    by |-> params[p].name]]
    /\ pc' = [pc EXCEPT ![p] = "writing"]
    /\ UNCHANGED <<callers, dirMade, params, arch, idx, ret, hit, hitOn,
                   failedAt, made, overlapped, scan, fs0, callNo,
                   urlRequests, httpFetches, served>>

\* extractall finishes writing the member and closes it.
ExtractWrite(p) ==
    /\ pc[p] = "writing"
    /\ LET m    == arch[p][idx[p]]
           rest == fs[m].writers \ {p}
       IN  fs' = [fs EXCEPT ![m] = [st |-> IF rest = {} THEN "complete" ELSE "partial",
                                    writers |-> rest,
                                    by |-> fs[m].by]]
    /\ idx' = [idx EXCEPT ![p] = @ + 1]
    /\ pc' = [pc EXCEPT ![p] = IF idx[p] + 1 > Len(arch[p]) THEN "verify" ELSE "extract"]
    /\ UNCHANGED <<callers, dirMade, params, arch, ret, hit, hitOn,
                   failedAt, made, overlapped, scan, fs0, callNo,
                   urlRequests, httpFetches, served>>

\* extractall raises before a member or part-way through writing one (disk
\* full, bad CRC): what is on disk stays as it is.
ExtractFails(p) ==
    /\ pc[p] \in {"extract", "writing"}
    /\ fs' = IF pc[p] = "writing"
               THEN LET m == arch[p][idx[p]]
                    IN  [fs EXCEPT ![m].writers = @ \ {p}]
               ELSE fs
    /\ Propagate(p, "extract")
    /\ UNCHANGED <<callers, dirMade, params, arch, idx, hit, hitOn,
                   made, overlapped, scan, fs0, callNo,
                   urlRequests, httpFetches, served>>

\* After the download: test out_tif again, scan out_dir when it is missing,
\* and return out_tif.
Verify(p) ==
    /\ pc[p] = "verify"
    /\ \E walk \in Walks(fs) :
         /\ scan' = [scan EXCEPT ![p] =
                       IF Exists(fs, OutTif(params[p].name)) THEN << >> ELSE walk]
         /\ ret' = [ret EXCEPT ![p] = ReturnPath(fs, walk, params[p].name)]
    /\ pc' = [pc EXCEPT ![p] = "returned"]
    /\ served' = [served EXCEPT ![params[p].name] = TRUE]
    /\ UNCHANGED <<callers, dirMade, fs, params, arch, idx, hit, hitOn,
                   failedAt, made, overlapped, fs0, callNo,
                   urlRequests, httpFetches>>

Next ==
    \E p \in Procs :
        \/ Call(p)
        \/ RegionInfo(p)
        \/ RegionInfoFails(p)
        \/ GetDownloadURL(p)
        \/ GetDownloadURLFails(p)
        \/ HttpGet(p)
        \/ HttpGetFails(p)
        \/ ExtractOpen(p)
        \/ ExtractWrite(p)
        \/ ExtractFails(p)
        \/ Verify(p)

Spec == Init /\ [][Next]_vars

SpecSeq == InitSeq /\ [][Next]_vars

(* ------------------------------ claims --------------------------------- *)

\* The cache path of p's current call, written out: {out_dir}/{name}.tif.
CachePath(p) == [dir |-> ".", file |-> params[p].name \o <<".tif">>]

\* The files under out_dir whose names pass the fallback test for p's name.
Candidates(p) ==
    { q \in Paths : fs[q].st # "absent" /\ Matches(q.file, params[p].name) }

\* p's call missed, downloaded, found no file at its cache path and scanned
\* an out_dir that holds at least one candidate.
FellBack(p) ==
    /\ pc[p] = "returned"
    /\ ~hit[p]
    /\ fs[CachePath(p)].st = "absent"
    /\ Candidates(p) # {}

\* The directories of a walk that hold a candidate for nm.
DirsWithMatch(walk, nm) ==
    { k \in DOMAIN walk : \E i \in DOMAIN walk[k].files : Matches(walk[k].files[i], nm) }

\* The first candidate listed in directory k of a walk.
FirstIn(walk, k, nm) ==
    LET i == CHOOSE a \in DOMAIN walk[k].files :
                 /\ Matches(walk[k].files[a], nm)
                 /\ \A b \in DOMAIN walk[k].files :
                      Matches(walk[k].files[b], nm) => a <= b
    IN  [dir |-> walk[k].root, file |-> walk[k].files[i]]

\* C1: Idempotence: once a call for a name has returned normally, no later
\* call for that name performs a remote request (no getDownloadURL, no HTTP
\* fetch), whatever the downloaded archive contained.
C1_Idempotent ==
    [][\A nm \in Names :
          served[nm] => /\ urlRequests'[nm] = urlRequests[nm]
                        /\ httpFetches'[nm] = httpFetches[nm]]_vars

\* C2: Cache hit short-circuit: a call made while a file exists at
\* {out_dir}/{name}.tif returns exactly that path, makes no remote call and
\* leaves every file unchanged; a call made while no file exists there is a
\* miss whose next step is the remote export.
C2_HitShortCircuit ==
    [][\A p \in Procs :
          callNo'[p] # callNo[p] =>
            LET out == [dir |-> ".", file |-> params'[p].name \o <<".tif">>]
            IN  IF fs[out].st # "absent"
                  THEN /\ pc'[p] = "returned"
                       /\ ret'[p] = out
                       /\ fs' = fs
                       /\ urlRequests' = urlRequests
                       /\ httpFetches' = httpFetches
                  ELSE /\ pc'[p] \in {"region", "geturl"}
                       /\ ret'[p] = NoPath
                       /\ fs' = fs]_vars

\* A later call hit a file that an earlier, failed extraction left partial,
\* and another call missed and went on to the remote export.
C2_Witness ==
    \E p \in Procs :
        /\ callNo[p] >= 2
        /\ hit[p]
        /\ pc[p] = "returned"
        /\ ret[p] = CachePath(p)
        /\ hitOn[p].st = "partial"

\* C3: Atomic publish under failure: after a failure between the start of
\* the download and its completion (extraction included) no file exists at
\* the final cache path.
C3_AtomicPublish ==
    \A p \in Procs :
        failedAt[p] \in {"get", "status", "zip", "extract"} =>
            fs[CachePath(p)].st = "absent"

\* C4: Single-flight: two concurrent calls for the same never-cached name
\* make exactly one remote submission between them and return the same path.
C4_SingleFlight ==
    \A p, q \in Procs :
        ( /\ p # q
          /\ pc[p] = "returned" /\ pc[q] = "returned"
          /\ params[p].name = params[q].name
          /\ overlapped[p] /\ overlapped[q]
          /\ (~hit[p] \/ ~hit[q]) )
        => /\ made[p] + made[q] = 1
           /\ ret[p] = ret[q]

\* C5: Publish is atomic with respect to a concurrent lookup: a call never
\* takes the cache-hit branch on a file that another call is still writing.
C5_NoHitWhileWriting ==
    \A p \in Procs : hit[p] => hitOn[p].writers = {}

\* C6: Failure propagation leaves the cache untouched: when the remote step
\* fails before materialization the call ends with the error and no path,
\* the files under out_dir are those of before the call, and the cache path
\* is still missing, so the next call for the name is a miss again.
C6_FailureLeavesCache ==
    \A p \in Procs :
        failedAt[p] \in {"region", "url", "get", "status", "zip"} =>
            /\ pc[p] = "raised"
            /\ ret[p] = NoPath
            /\ fs = fs0[p]
            /\ fs[CachePath(p)].st = "absent"

\* A later call failed on an HTTP error status with files already under
\* out_dir.
C6_Witness ==
    \E p \in Procs :
        /\ callNo[p] >= 2
        /\ failedAt[p] = "status"
        /\ pc[p] = "raised"
        /\ \E q \in Paths : fs[q].st = "complete"

\* C7: No silent empty result: every normal return yields a path at which a
\* file exists at the moment of return.
C7_ReturnedPathExists ==
    \A p \in Procs :
        pc[p] = "returned" => ret[p] \in Paths /\ fs[ret[p]].st # "absent"

\* C8 (as claimed): every call that returns normally returns
\* {out_dir}/{name}.tif, whatever the archive contained.
C8_AlwaysCachePath ==
    \A p \in Procs : pc[p] = "returned" => ret[p] = CachePath(p)

\* C8: Cache-key determinism: a call that returns normally returns
\* {out_dir}/{name}.tif, whatever its scale and region, unless it missed,
\* no file exists at that path after extraction and the scan found a
\* candidate; it then returns an existing candidate's path.
C8_CachePathOrFallback ==
    \A p \in Procs :
        pc[p] = "returned" =>
            \/ ret[p] = CachePath(p)
            \/ /\ ~hit[p]
               /\ fs[CachePath(p)].st = "absent"
               /\ ret[p] \in Candidates(p)

\* A call with a non-default scale and an ee.Geometry region returned the
\* path of a candidate found by the scan, not its cache path.
C8_Witness ==
    \E p \in Procs :
        /\ pc[p] = "returned"
        /\ params[p].scale # DefaultScale
        /\ params[p].geom
        /\ ret[p] # CachePath(p)
        /\ ret[p] \in Candidates(p)

\* C9 (as claimed): on a fallback the first candidate in directory-walk
\* order is the path returned.
C9_FirstInWalkOrder ==
    \A p \in Procs :
        FellBack(p) =>
            LET ds == DirsWithMatch(scan[p], params[p].name)
                k  == CHOOSE a \in ds : \A b \in ds : a <= b
            IN  ret[p] = FirstIn(scan[p], k, params[p].name)

\* C9: Fallback scan: on a fallback the call returns an existing candidate:
\* the first candidate listed in the last directory, in walk order, that
\* holds one.
C9_FirstInLastDirectory ==
    \A p \in Procs :
        FellBack(p) =>
            LET ds == DirsWithMatch(scan[p], params[p].name)
                k  == CHOOSE a \in ds : \A b \in ds : a >= b
            IN  /\ ret[p] = FirstIn(scan[p], k, params[p].name)
                /\ ret[p] \in Candidates(p)

\* A fallback over an out_dir with candidates in the root and in a
\* sub-directory, two of them in one directory.
C9_Witness ==
    \E p \in Procs :
        /\ FellBack(p)
        /\ Cardinality(DirsWithMatch(scan[p], params[p].name)) = 2
        /\ Cardinality({ q \in Candidates(p) : q.dir = "." }) >= 2
        /\ ret[p].dir = "sub"

\* C10: Cross-name isolation: the path returned for a name refers to a file
\* materialized by an export for that name, never to one published by an
\* export for a different name.
C10_OwnFileReturned ==
    \A p \in Procs :
        (pc[p] = "returned" /\ ret[p] \in Paths /\ fs[ret[p]].st # "absent")
            => fs[ret[p]].by = params[p].name
====
